---- MODULE Spec2Model ----
(***************************************************************************)
(* A model of hash-chain's ChainMap<K, V> (src/map.rs): a Vec of HashMaps  *)
(* searched from the last layer to the first, written in the last layer.   *)
(*                                                                         *)
(* A HashMap<K, V> is a function from Keys to Option<V>: None for a key    *)
(* the map does not contain, Some(v) for a key bound to v.  Option<T> is   *)
(* the empty sequence (None) or a one-element sequence (Some).             *)
(***************************************************************************)
EXTENDS Integers, Sequences, FiniteSets

\* ------------------------------------------------------------------ bounds
\* the deepest stack of layers new_child and new_child_with build
MaxDepth == 3
\* the remove_child calls followed beyond the one that clears the base layer
MaxExtra == 2

\* the keys and values the calls are made with
Keys == {"x", "y"}
Vals == {0, 1}

\* ------------------------------------------------------------- Option<T>
None == <<>>
Some(v) == <<v>>
IsSome(o) == o # <<>>
Unwrap(o) == o[1]

\* ---------------------------------------------------------- HashMap<K, V>
HashMaps == [Keys -> {None} \cup {Some(v) : v \in Vals}]
HashMapNew == [k \in Keys |-> None]
HashMapGet(m, key) == m[key]
HashMapContains(m, key) == IsSome(m[key])
\* HashMap::insert: binds key to value, returns the value bound before
HashMapInsert(m, key, value) ==
  [map |-> [m EXCEPT ![key] = Some(value)], ret |-> m[key]]
HashMapIsEmpty(m) == \A k \in Keys : m[k] = None

\* ------------------------------------------------------------ Vec<T>
VecLast(v) == v[Len(v)]
VecPush(v, e) == Append(v, e)
\* Vec::pop: None on an empty vector
VecPop(v) ==
  IF Len(v) = 0 THEN [vec |-> v, ret |-> None]
  ELSE [vec |-> SubSeq(v, 1, Len(v) - 1), ret |-> Some(v[Len(v)])]

\* ------------------------------------------------------------ ChainMap
VARIABLES
  maps,      \* ChainMap.maps: the layers, base first
  ret,       \* what the last call returned
  borrow,    \* the live &mut V handed out by get_mut: <<layer, key>>, or <<>>
  panicked,  \* the thread unwound out of index()
  op,        \* the last call and its arguments
  prev,      \* maps as it was when the last call was made
  scope,     \* the scope opened by the last new_child, while only inserts followed
  drain      \* the run of consecutive remove_child calls the last call ended

vars == <<maps, ret, borrow, panicked, op, prev, scope, drain>>

\* a faulty new: the supplied map goes over an empty base layer
new_over_empty(map) == <<HashMapNew, map>>

\* ChainMap::new
new(map) == <<map>>

\* Default::default
default == <<HashMapNew>>

\* the loop of ChainMap::get, at layer i of maps.iter().rev()
RECURSIVE get_from(_, _, _)
get_from(ms, i, key) ==
  IF i = 0 THEN None
  ELSE IF IsSome(HashMapGet(ms[i], key)) THEN HashMapGet(ms[i], key)
  ELSE get_from(ms, i - 1, key)

\* a faulty get: maps.iter() without rev(), the base layer wins
RECURSIVE get_forward(_, _, _)
get_forward(ms, i, key) ==
  IF i > Len(ms) THEN None
  ELSE IF IsSome(HashMapGet(ms[i], key)) THEN HashMapGet(ms[i], key)
  ELSE get_forward(ms, i + 1, key)

get_base_first(ms, key) == get_forward(ms, 1, key)

\* a faulty get: a default value where no layer holds the key
get_or_zero(ms, key) ==
  IF IsSome(get_from(ms, Len(ms), key)) THEN get_from(ms, Len(ms), key)
  ELSE Some(0)

\* ChainMap::get
get(ms, key) == get_from(ms, Len(ms), key)

\* ChainMap::insert
\* a faulty insert: writes the base layer instead of the last one
insert_first(ms, key, value) ==
  IF Len(ms) = 0 THEN [maps |-> ms, ret |-> None]
  ELSE LET r == HashMapInsert(ms[1], key, value)
       IN  [maps |-> [ms EXCEPT ![1] = r.map], ret |-> r.ret]

\* a faulty insert: returns the previous effective value of any layer
insert_ret_effective(ms, key, value) ==
  IF Len(ms) = 0 THEN [maps |-> ms, ret |-> None]
  ELSE LET r == HashMapInsert(VecLast(ms), key, value)
       IN  [maps |-> [ms EXCEPT ![Len(ms)] = r.map],
            ret |-> get(ms, key)]

\* a faulty insert: keeps a binding the top layer already has
insert_if_absent(ms, key, value) ==
  IF Len(ms) = 0 THEN [maps |-> ms, ret |-> None]
  ELSE IF HashMapContains(VecLast(ms), key)
       THEN [maps |-> ms, ret |-> HashMapGet(VecLast(ms), key)]
       ELSE [maps |-> [ms EXCEPT ![Len(ms)] = HashMapInsert(@, key, value).map],
             ret |-> None]

\* the code: maps.last_mut()? then HashMap::insert
insert(ms, key, value) ==
  IF Len(ms) = 0 THEN [maps |-> ms, ret |-> None]
  ELSE LET r == HashMapInsert(VecLast(ms), key, value)
       IN  [maps |-> [ms EXCEPT ![Len(ms)] = r.map], ret |-> r.ret]

\* the loop of ChainMap::get_mut, at layer i of maps.iter_mut().rev():
\* the place the returned reference points into
RECURSIVE get_mut_from(_, _, _)
get_mut_from(ms, i, key) ==
  IF i = 0 THEN None
  ELSE IF IsSome(HashMapGet(ms[i], key)) THEN Some(i)
  ELSE get_mut_from(ms, i - 1, key)

\* a faulty get_mut: maps.iter_mut() without rev()
RECURSIVE get_mut_forward(_, _, _)
get_mut_forward(ms, i, key) ==
  IF i > Len(ms) THEN None
  ELSE IF IsSome(HashMapGet(ms[i], key)) THEN Some(i)
  ELSE get_mut_forward(ms, i + 1, key)

get_mut_base_first(ms, key) == get_mut_forward(ms, 1, key)

\* a faulty get_mut: looks in the last layer only
get_mut_top_only(ms, key) ==
  IF Len(ms) = 0 THEN None
  ELSE IF IsSome(HashMapGet(VecLast(ms), key)) THEN Some(Len(ms))
  ELSE None

\* ChainMap::get_mut
get_mut(ms, key) == get_mut_from(ms, Len(ms), key)

\* ChainMap::new_child
\* a faulty new_child: the new layer goes below the others
new_child_front(ms) == <<HashMapNew>> \o ms

\* a faulty new_child: the new layer starts as a copy of the top layer
new_child_clone_top(ms) ==
  IF Len(ms) = 0 THEN VecPush(ms, HashMapNew) ELSE VecPush(ms, VecLast(ms))

\* the code: maps.push(HashMap::new())
new_child(ms) == VecPush(ms, HashMapNew)

\* ChainMap::new_child_with
\* a faulty new_child_with: the supplied map is dropped, an empty layer pushed
new_child_with_empty(ms, map) == VecPush(ms, HashMapNew)

\* the code: maps.push(map)
new_child_with(ms, map) == VecPush(ms, map)

\* ChainMap::remove_child
\* a faulty remove_child: pops without the len() == 1 branch
remove_child_always_pop(ms) ==
  LET p == VecPop(ms) IN [maps |-> p.vec, ret |-> p.ret]

\* a faulty remove_child: hands out the single layer without clearing it
remove_child_keep_contents(ms) ==
  IF Len(ms) = 1
  THEN [maps |-> ms, ret |-> Some(ms[1])]
  ELSE LET p == VecPop(ms) IN [maps |-> p.vec, ret |-> p.ret]

\* a faulty remove_child: removes the base layer instead of the top one
remove_child_first(ms) ==
  IF Len(ms) = 1
  THEN [maps |-> [ms EXCEPT ![1] = HashMapNew], ret |-> Some(ms[1])]
  ELSE IF Len(ms) = 0 THEN [maps |-> ms, ret |-> None]
  ELSE [maps |-> SubSeq(ms, 2, Len(ms)), ret |-> Some(ms[1])]

\* a faulty remove_child: "stack too short" (None) on the single layer
remove_child_none_on_single(ms) ==
  IF Len(ms) <= 1
  THEN [maps |-> ms, ret |-> None]
  ELSE LET p == VecPop(ms) IN [maps |-> p.vec, ret |-> p.ret]

\* a faulty remove_child: clears the single layer and returns a new empty map
remove_child_lose_contents(ms) ==
  IF Len(ms) = 1
  THEN [maps |-> [ms EXCEPT ![1] = HashMapNew], ret |-> Some(HashMapNew)]
  ELSE LET p == VecPop(ms) IN [maps |-> p.vec, ret |-> p.ret]

\* the code: replace the single layer by an empty map, else Vec::pop
remove_child(ms) ==
  IF Len(ms) = 1
  THEN [maps |-> [ms EXCEPT ![1] = HashMapNew], ret |-> Some(ms[1])]
  ELSE LET p == VecPop(ms) IN [maps |-> p.vec, ret |-> p.ret]

\* Index::index: the value, or a panic (panic |-> TRUE) when get is None
\* a faulty index: a default value instead of the panic
index_or_default(ms, key) ==
  IF IsSome(get(ms, key)) THEN [panic |-> FALSE, ret |-> get(ms, key)]
  ELSE [panic |-> FALSE, ret |-> Some(0)]

\* the code: self.get(key).expect(..)
index(ms, key) ==
  IF IsSome(get(ms, key)) THEN [panic |-> FALSE, ret |-> get(ms, key)]
  ELSE [panic |-> TRUE, ret |-> None]

\* ------------------------------------------------------- the scope record
NoScope == <<>>
OpenScope(pre, ins) == <<"open", pre, ins>>
ClosedScope(pre, ins) == <<"closed", pre, ins>>
IsOpen(s) == s # NoScope /\ s[1] = "open"
IsClosed(s) == s # NoScope /\ s[1] = "closed"

\* ------------------------------------------------------- the drain record
\* no run of remove_child calls: the last call was another one
NoDrain == <<>>
\* the layers the run started from, and what its calls returned, in order
Draining(start, rets) == <<start, rets>>
\* the record after one more remove_child, made on ms and returning r
Drained(d, ms, r) ==
  IF d = NoDrain \/ Len(d[2]) >= Len(d[1]) + MaxExtra
  THEN Draining(ms, <<r>>)
  ELSE Draining(d[1], Append(d[2], r))

\* a call can be made: no &mut V is alive and the thread has not unwound
Callable == borrow = <<>> /\ ~panicked

\* ------------------------------------------------------------------ Init
Init ==
  /\ \/ /\ maps = default
        /\ op = <<"default">>
     \/ \E m \in HashMaps :
          /\ maps = new(m)
          /\ op = <<"new", m>>
  /\ ret = None
  /\ borrow = <<>>
  /\ panicked = FALSE
  /\ prev = maps
  /\ scope = NoScope
  /\ drain = NoDrain

\* --------------------------------------------------------------- actions
Insert(key, value) ==
  /\ Callable
  /\ LET r == insert(maps, key, value)
     IN  /\ maps' = r.maps
         /\ ret' = r.ret
  /\ op' = <<"insert", key, value>>
  /\ prev' = maps
  /\ scope' = IF IsOpen(scope)
              THEN OpenScope(scope[2], [scope[3] EXCEPT ![key] = Some(value)])
              ELSE NoScope
  /\ drain' = NoDrain
  /\ UNCHANGED <<borrow, panicked>>

\* a faulty get: copies the binding it found into the top layer
GetPromote(key) ==
  /\ Callable
  /\ ret' = get(maps, key)
  /\ maps' = IF IsSome(get(maps, key)) /\ Len(maps) >= 1
             THEN [maps EXCEPT ![Len(maps)][key] = get(maps, key)]
             ELSE maps
  /\ op' = <<"get", key>>
  /\ prev' = maps
  /\ scope' = NoScope
  /\ drain' = NoDrain
  /\ UNCHANGED <<borrow, panicked>>

\* the code: get takes &self
Get(key) ==
  /\ Callable
  /\ ret' = get(maps, key)
  /\ op' = <<"get", key>>
  /\ prev' = maps
  /\ scope' = NoScope
  /\ drain' = NoDrain
  /\ UNCHANGED <<maps, borrow, panicked>>

GetMut(key) ==
  /\ Callable
  /\ LET r == get_mut(maps, key)
     IN  /\ ret' = IF IsSome(r) THEN HashMapGet(maps[Unwrap(r)], key) ELSE None
         /\ borrow' = IF IsSome(r) THEN <<Unwrap(r), key>> ELSE <<>>
  /\ op' = <<"get_mut", key>>
  /\ prev' = maps
  /\ scope' = NoScope
  /\ drain' = NoDrain
  /\ UNCHANGED <<maps, panicked>>

\* `*r = value` through the reference get_mut returned; the borrow ends
WriteRef(value) ==
  /\ borrow # <<>>
  /\ ~panicked
  /\ maps' = [maps EXCEPT ![borrow[1]][borrow[2]] = Some(value)]
  /\ borrow' = <<>>
  /\ op' = <<"write", borrow[2], value>>
  /\ prev' = maps
  /\ scope' = NoScope
  /\ drain' = NoDrain
  /\ UNCHANGED <<ret, panicked>>

\* the reference get_mut returned goes out of scope unwritten
DropRef ==
  /\ borrow # <<>>
  /\ ~panicked
  /\ borrow' = <<>>
  /\ op' = <<"drop", borrow[2]>>
  /\ prev' = maps
  /\ scope' = NoScope
  /\ drain' = NoDrain
  /\ UNCHANGED <<maps, ret, panicked>>

NewChild ==
  /\ Callable
  /\ Len(maps) < MaxDepth
  /\ maps' = new_child(maps)
  /\ ret' = None
  /\ op' = <<"new_child">>
  /\ prev' = maps
  /\ scope' = OpenScope(maps, HashMapNew)
  /\ drain' = NoDrain
  /\ UNCHANGED <<borrow, panicked>>

NewChildWith(map) ==
  /\ Callable
  /\ Len(maps) < MaxDepth
  /\ maps' = new_child_with(maps, map)
  /\ ret' = None
  /\ op' = <<"new_child_with", map>>
  /\ prev' = maps
  /\ scope' = NoScope
  /\ drain' = NoDrain
  /\ UNCHANGED <<borrow, panicked>>

RemoveChild ==
  /\ Callable
  /\ LET r == remove_child(maps)
     IN  /\ maps' = r.maps
         /\ ret' = r.ret
  /\ op' = <<"remove_child">>
  /\ prev' = maps
  /\ scope' = IF IsOpen(scope) THEN ClosedScope(scope[2], scope[3]) ELSE NoScope
  /\ drain' = Drained(drain, maps, remove_child(maps).ret)
  /\ UNCHANGED <<borrow, panicked>>

Index(key) ==
  /\ Callable
  /\ LET r == index(maps, key)
     IN  /\ ret' = r.ret
         /\ panicked' = r.panic
  /\ op' = <<"index", key>>
  /\ prev' = maps
  /\ scope' = NoScope
  /\ drain' = NoDrain
  /\ UNCHANGED <<maps, borrow>>

Next ==
  \/ \E key \in Keys, value \in Vals : Insert(key, value)
  \/ \E key \in Keys : Get(key)
  \/ \E key \in Keys : GetMut(key)
  \/ \E value \in Vals : WriteRef(value)
  \/ DropRef
  \/ NewChild
  \/ \E map \in HashMaps : NewChildWith(map)
  \/ RemoveChild
  \/ \E key \in Keys : Index(key)

Spec == Init /\ [][Next]_vars

\* ------------------------------------------------- what the claims speak of
\* the layers of ms that contain key
Holders(ms, key) == {i \in 1..Len(ms) : ms[i][key] # None}
\* the highest index of a non-empty set of layers
Highest(S) == CHOOSE i \in S : \A j \in S : j <= i
\* the value bound to key in the highest-indexed layer that contains it
Effective(ms, key) ==
  IF Holders(ms, key) = {} THEN None ELSE ms[Highest(Holders(ms, key))][key]
\* the last call was `name`
Called(name) == op[1] = name

\* C1: in every reachable state the container has at least one layer.
C1_NeverEmpty == Len(maps) >= 1

\* remove_child was called on the single empty layer and a layer is still there
C1_Witness ==
  /\ Called("remove_child")
  /\ prev = default
  /\ Len(maps) = 1

\* C2: get(k) returns the value bound to k in the highest-indexed layer that
\* contains k, and returns nothing exactly when no layer contains k.
C2_GetHighestLayer ==
  /\ Called("get") =>
       /\ ret = Effective(prev, op[2])
       /\ (ret = None) <=> (Holders(prev, op[2]) = {})
  /\ \A k \in Keys :
       /\ get(maps, k) = Effective(maps, k)
       /\ (get(maps, k) = None) <=> (Holders(maps, k) = {})

\* get("x") over three layers: x -> 0 at the base, x -> 1 above it, no x on top
C2_Witness ==
  /\ Called("get")
  /\ op[2] = "x"
  /\ Len(prev) = 3
  /\ prev[1]["x"] = Some(0)
  /\ prev[2]["x"] = Some(1)
  /\ prev[3]["x"] = None
  /\ ret = Some(1)

\* C3: insert(k, v) changes only the binding of k in the topmost layer: the
\* lower layers and the number of layers are as before, the other keys of
\* the top layer keep their values, and get(k') is unchanged for k' # k.
C3_InsertFrame ==
  Called("insert") =>
    /\ Len(maps) = Len(prev)
    /\ \A i \in 1..(Len(prev) - 1) : maps[i] = prev[i]
    /\ \A k \in Keys \ {op[2]} :
         /\ maps[Len(maps)][k] = prev[Len(prev)][k]
         /\ get(maps, k) = get(prev, k)

\* insert("x", 1) in a child layer over a base holding x -> 0 and y -> 1
C3_Witness ==
  /\ Called("insert")
  /\ op[2] = "x" /\ op[3] = 1
  /\ Len(prev) = 2
  /\ prev[1]["x"] = Some(0) /\ prev[1]["y"] = Some(1)
  /\ prev[2]["y"] = None
  /\ maps[1] = prev[1]
  /\ get(maps, "y") = Some(1)

\* C4: insert(k, v) returns the value k was bound to in the topmost layer,
\* and nothing when the top layer did not contain k, also when a lower layer
\* binds k.
C4_InsertReturnsTopPrevious ==
  Called("insert") =>
    /\ ret = prev[Len(prev)][op[2]]
    /\ (prev[Len(prev)][op[2]] = None) => (ret = None)

\* insert("x", 1) returned nothing although the base layer binds x
C4_Witness ==
  /\ Called("insert")
  /\ op[2] = "x"
  /\ Len(prev) = 2
  /\ prev[1]["x"] = Some(0)
  /\ prev[2]["x"] = None
  /\ ret = None

\* C5: at any depth, whether or not k is bound anywhere, get(k) right after
\* insert(k, v) returns v.
C5_InsertThenGet ==
  Called("insert") => get(maps, op[2]) = Some(op[3])

\* insert("x", 1) at depth three where the top and a lower layer bind x to 0
C5_Witness ==
  /\ Called("insert")
  /\ op[2] = "x" /\ op[3] = 1
  /\ Len(prev) = 3
  /\ prev[3]["x"] = Some(0)
  /\ prev[1]["x"] = Some(0)
  /\ get(maps, "x") = Some(1)

\* C6: remove_child on a single layer keeps the layer: it returns the entries
\* the layer held, the layer is empty afterwards (every get is empty) and the
\* layer count is still one.
C6_RemoveChildSingle ==
  (Called("remove_child") /\ Len(prev) = 1) =>
    /\ ret = Some(prev[1])
    /\ Len(maps) = 1
    /\ HashMapIsEmpty(maps[1])
    /\ \A k \in Keys : get(maps, k) = None

\* remove_child on the single layer {x -> 0}
C6_Witness ==
  /\ Called("remove_child")
  /\ Len(prev) = 1
  /\ prev[1]["x"] = Some(0) /\ prev[1]["y"] = None
  /\ ret = Some(prev[1])
  /\ get(maps, "x") = None

\* C7: remove_child on more than one layer returns the contents of the top
\* layer, the layer count drops by one, the remaining layers are unchanged,
\* and the second-from-top layer is the one later inserts write.
C7_RemoveChildMulti ==
  (Called("remove_child") /\ Len(prev) > 1) =>
    /\ ret = Some(prev[Len(prev)])
    /\ Len(maps) = Len(prev) - 1
    /\ \A i \in 1..(Len(prev) - 1) : maps[i] = prev[i]
    /\ \A k \in Keys, v \in Vals :
         LET after == insert(maps, k, v).maps
         IN  /\ Len(after) = Len(prev) - 1
             /\ after[Len(prev) - 1][k] = Some(v)
             /\ \A i \in 1..(Len(prev) - 2) : after[i] = prev[i]

\* remove_child on three layers whose top differs from the one below it
C7_Witness ==
  /\ Called("remove_child")
  /\ Len(prev) = 3
  /\ prev[3]["x"] = Some(1)
  /\ prev[2]["x"] = Some(0)
  /\ prev[1]["x"] = None
  /\ Len(maps) = 2
  /\ ret = Some(prev[3])

\* C8: new_child, then any number of inserts, then remove_child: the layers
\* are those before the push, get(k) is what it was before the push for
\* every k, and the returned layer holds the bindings inserted since.
C8_ScopeRoundTrip ==
  IsClosed(scope) =>
    /\ maps = scope[2]
    /\ \A k \in Keys : get(maps, k) = get(scope[2], k)
    /\ ret = Some(scope[3])

\* x -> 0 was shadowed by x -> 1 in the child and is visible again
C8_Witness ==
  /\ IsClosed(scope)
  /\ Effective(scope[2], "x") = Some(0)
  /\ scope[3]["x"] = Some(1)
  /\ get(maps, "x") = Some(0)

\* C9: with k absent from the top layer and present below, a write through
\* get_mut(k) changes k in the highest-indexed layer that contains k, get(k)
\* then returns the written value, the top layer gains no entry for k, and
\* the layer count and all other bindings are unchanged.
C9_GetMutOuterWrite ==
  (/\ Called("write")
   /\ Len(prev) >= 1
   /\ prev[Len(prev)][op[2]] = None
   /\ Holders(prev, op[2]) # {}) =>
    LET h == Highest(Holders(prev, op[2]))
    IN  /\ Len(maps) = Len(prev)
        /\ maps[h][op[2]] = Some(op[3])
        /\ get(maps, op[2]) = Some(op[3])
        /\ maps[Len(maps)][op[2]] = None
        /\ \A i \in 1..Len(prev), k \in Keys :
             (i # h \/ k # op[2]) => maps[i][k] = prev[i][k]

\* 1 written through get_mut("x") where the two lower of three layers bind x
C9_Witness ==
  /\ Called("write")
  /\ op[2] = "x" /\ op[3] = 1
  /\ Len(prev) = 3
  /\ prev[1]["x"] = Some(0)
  /\ prev[2]["x"] = Some(0)
  /\ prev[3]["x"] = None
  /\ maps[2]["x"] = Some(1)
  /\ maps[1]["x"] = Some(0)

\* C10: chain_map[k] panics exactly when k is absent from every layer, that
\* is exactly when get(k) returns nothing; otherwise it returns what get(k)
\* returns.
C10_IndexPanicsIffAbsent ==
  Called("index") =>
    /\ panicked <=> (Holders(prev, op[2]) = {})
    /\ panicked <=> (get(prev, op[2]) = None)
    /\ ~panicked => (ret = get(prev, op[2]) /\ ret = Effective(prev, op[2]))

\* chain_map["x"] panicked over two layers that bind only y
C10_Witness ==
  /\ Called("index")
  /\ op[2] = "x"
  /\ panicked
  /\ Len(prev) = 2
  /\ prev[1]["y"] = Some(0)
  /\ prev[2]["y"] = Some(1)

\* C11: at any depth, get(k) and get_mut(k) for a key no layer contains
\* return nothing and do not fail, also over a single cleared layer.
C11_AbsentKeyIsNone ==
  /\ (Called("get") /\ Holders(prev, op[2]) = {}) =>
       /\ ret = None
       /\ ~panicked
       /\ maps = prev
  /\ (Called("get_mut") /\ Holders(prev, op[2]) = {}) =>
       /\ ret = None
       /\ borrow = <<>>
       /\ ~panicked
       /\ maps = prev
  /\ \A k \in Keys :
       Holders(maps, k) = {} => (get(maps, k) = None /\ get_mut(maps, k) = None)

\* get_mut("x") over three layers that bind only y returned nothing
C11_Witness ==
  /\ Called("get_mut")
  /\ op[2] = "x"
  /\ Len(prev) = 3
  /\ Holders(prev, "x") = {}
  /\ Holders(prev, "y") = {1, 2, 3}
  /\ ret = None
  /\ borrow = <<>>
  /\ ~panicked

\* C12: new_child appends one empty layer: one layer more, the layers that
\* were there unchanged, every get as before, and the inserts that follow
\* write this new layer until a layer is pushed or removed.
C12_NewChildAppendsEmpty ==
  /\ Called("new_child") =>
       /\ Len(maps) = Len(prev) + 1
       /\ \A i \in 1..Len(prev) : maps[i] = prev[i]
       /\ HashMapIsEmpty(maps[Len(maps)])
       /\ \A k \in Keys : get(maps, k) = get(prev, k)
  /\ IsOpen(scope) =>
       /\ Len(maps) = Len(scope[2]) + 1
       /\ \A i \in 1..Len(scope[2]) : maps[i] = scope[2][i]
       /\ maps[Len(maps)] = scope[3]

\* two inserts after new_child over a base binding x: both are in the new layer
C12_Witness ==
  /\ IsOpen(scope)
  /\ Called("insert")
  /\ Len(scope[2]) = 1
  /\ scope[2][1]["x"] = Some(0)
  /\ scope[3]["x"] = Some(1) /\ scope[3]["y"] = Some(1)
  /\ maps[2] = scope[3]
  /\ maps[1] = scope[2][1]

\* C13: new_child_with(m) appends one layer equal to m: one layer more, the
\* layers that were there unchanged, and get(k) is m[k] for the keys of m
\* and what it was before for the others.
C13_NewChildWithAppends ==
  Called("new_child_with") =>
    /\ Len(maps) = Len(prev) + 1
    /\ \A i \in 1..Len(prev) : maps[i] = prev[i]
    /\ maps[Len(maps)] = op[2]
    /\ \A k \in Keys :
         get(maps, k) = IF op[2][k] # None THEN op[2][k] ELSE get(prev, k)

\* new_child_with({x -> 1}) over a base binding x -> 0 and y -> 1
C13_Witness ==
  /\ Called("new_child_with")
  /\ op[2]["x"] = Some(1) /\ op[2]["y"] = None
  /\ Len(prev) = 1
  /\ prev[1]["x"] = Some(0) /\ prev[1]["y"] = Some(1)
  /\ get(maps, "x") = Some(1)
  /\ get(maps, "y") = Some(1)

\* C14: ChainMap::new(m) yields exactly one layer, equal to m, and
\* ChainMap::default() yields exactly one empty layer.
C14_InitialStates ==
  /\ Called("new") => (Len(maps) = 1 /\ maps[1] = op[2])
  /\ Called("default") => (Len(maps) = 1 /\ HashMapIsEmpty(maps[1]))

\* ChainMap::new({x -> 1}), as in test::initialization
C14_Witness ==
  /\ Called("new")
  /\ op[2]["x"] = Some(1) /\ op[2]["y"] = None
  /\ Len(maps) = 1
  /\ maps[1]["x"] = Some(1)

\* C15: insert, new_child, new_child_with and remove_child never fail:
\* insert always stores the pair (there is a last layer to write) and
\* remove_child always returns a mapping (Some), never None.
C15_NeverFail ==
  /\ Called("insert") =>
       /\ Len(prev) >= 1
       /\ maps[Len(maps)][op[2]] = Some(op[3])
       /\ ~panicked
  /\ Called("remove_child") =>
       /\ IsSome(ret)
       /\ Unwrap(ret) \in HashMaps
       /\ ~panicked
  /\ Called("new_child") => (Len(maps) = Len(prev) + 1 /\ ~panicked)
  /\ Called("new_child_with") => (Len(maps) = Len(prev) + 1 /\ ~panicked)

\* remove_child on the single layer {y -> 1} returned Some
C15_Witness ==
  /\ Called("remove_child")
  /\ Len(prev) = 1
  /\ prev[1]["y"] = Some(1) /\ prev[1]["x"] = None
  /\ IsSome(ret)

\* C16: get_mut searches in the order of get: get_mut(k) yields the entry
\* of the layer get(k) reads, the highest-indexed layer that contains k, and
\* yields nothing exactly when get(k) yields nothing.
C16_GetMutSameOrderAsGet ==
  /\ Called("get_mut") =>
       /\ ret = get(prev, op[2])
       /\ (ret = None) <=> (borrow = <<>>)
       /\ borrow # <<>> =>
            /\ borrow[1] = Highest(Holders(prev, op[2]))
            /\ borrow[2] = op[2]
  /\ \A k \in Keys :
       /\ (get_mut(maps, k) = None) <=> (get(maps, k) = None)
       /\ IsSome(get_mut(maps, k)) =>
            /\ Unwrap(get_mut(maps, k)) = Highest(Holders(maps, k))
            /\ maps[Unwrap(get_mut(maps, k))][k] = get(maps, k)

\* get_mut("x") where x is 0 at the base, 1 in the middle and absent on top
C16_Witness ==
  /\ Called("get_mut")
  /\ op[2] = "x"
  /\ Len(prev) = 3
  /\ prev[1]["x"] = Some(0)
  /\ prev[2]["x"] = Some(1)
  /\ prev[3]["x"] = None
  /\ borrow = <<2, "x">>
  /\ ret = Some(1)

\* the layers below the highest one that contains key: the shadowed entries
Shadowed(ms, key) ==
  IF Holders(ms, key) = {} THEN {}
  ELSE Holders(ms, key) \ {Highest(Holders(ms, key))}

\* C17 as stated: with a key in a higher and in a lower layer, the higher
\* entry hides the lower one for get and insert but not for get_mut, whose
\* reference reaches the lower layer's entry.
C17_GetMutNotShadowed ==
  /\ (Called("get") /\ Shadowed(prev, op[2]) # {}) =>
       ret = prev[Highest(Holders(prev, op[2]))][op[2]]
  /\ (Called("insert") /\ Holders(prev, op[2]) # {}) =>
       get(maps, op[2]) = Some(op[3])
  /\ (Called("get_mut") /\ Shadowed(prev, op[2]) # {}) =>
       /\ borrow # <<>>
       /\ borrow[1] \in Shadowed(prev, op[2])

\* C17, amended: shadowing applies to get, insert and get_mut alike.  With
\* a key in a higher and in a lower layer, get returns and get_mut refers to
\* the higher entry, a write through get_mut leaves the lower entries as
\* they were, and insert leaves them in place under its new top binding;
\* get_mut reaches a lower layer only when no layer above it holds the key.
C17_GetMutShadowedToo ==
  /\ (Called("get") /\ Shadowed(prev, op[2]) # {}) =>
       ret = prev[Highest(Holders(prev, op[2]))][op[2]]
  /\ (Called("insert") /\ Holders(prev, op[2]) # {}) =>
       /\ get(maps, op[2]) = Some(op[3])
       /\ \A i \in Holders(prev, op[2]) \ {Len(prev)} :
            maps[i][op[2]] = prev[i][op[2]]
  /\ (Called("get_mut") /\ Shadowed(prev, op[2]) # {}) =>
       /\ borrow = <<Highest(Holders(prev, op[2])), op[2]>>
       /\ borrow[1] \notin Shadowed(prev, op[2])
       /\ ret = prev[Highest(Holders(prev, op[2]))][op[2]]
  /\ (Called("get_mut") /\ borrow # <<>> /\ borrow[1] < Len(prev)) =>
       \A i \in (borrow[1] + 1)..Len(prev) : prev[i][op[2]] = None
  /\ (Called("write") /\ Shadowed(prev, op[2]) # {}) =>
       /\ \A i \in Shadowed(prev, op[2]) : maps[i][op[2]] = prev[i][op[2]]
       /\ maps[Highest(Holders(prev, op[2]))][op[2]] = Some(op[3])

\* 0 written through get_mut("x") with x -> 1 on top and at the base: the
\* base entry still reads 1
C17_Witness ==
  /\ Called("write")
  /\ op[2] = "x" /\ op[3] = 0
  /\ Len(prev) = 3
  /\ prev[1]["x"] = Some(1)
  /\ prev[2]["x"] = None
  /\ prev[3]["x"] = Some(1)
  /\ maps[3]["x"] = Some(0)
  /\ maps[1]["x"] = Some(1)

\* C18: get(k), an index lookup that succeeds and a get_mut(k) whose
\* reference is not written through (also get_mut of an absent key) leave
\* the container as it was: the same layers with the same contents.
C18_LookupsReadOnly ==
  /\ Called("get") => maps = prev
  /\ (Called("index") /\ ~panicked) => maps = prev
  /\ Called("get_mut") => maps = prev
  /\ Called("drop") => maps = prev

\* the reference of get_mut("x") into the base of two layers was dropped unwritten
C18_Witness ==
  /\ Called("drop")
  /\ op[2] = "x"
  /\ Len(prev) = 2
  /\ prev[1]["x"] = Some(0)
  /\ prev[2]["x"] = None /\ prev[2]["y"] = Some(1)
  /\ maps = prev
  /\ ret = Some(0)

\* C19: n consecutive remove_child calls on n layers return the layers from
\* the top one to the base and leave one empty layer, the state of
\* ChainMap::default(); every further remove_child returns an empty mapping
\* and leaves that state as it is.
C19_Draining ==
  drain # NoDrain =>
    LET n == Len(drain[1])
        j == Len(drain[2])
    IN  /\ \A i \in 1..j :
             drain[2][i] = IF i <= n THEN Some(drain[1][n + 1 - i])
                           ELSE Some(HashMapNew)
        /\ j < n => (Len(maps) = n - j /\ \A i \in 1..(n - j) : maps[i] = drain[1][i])
        /\ j >= n => maps = default
        /\ j > n => (maps = prev /\ ret = Some(HashMapNew))
        /\ ret = drain[2][j]

\* four remove_child calls on three different layers: the fourth returned
\* an empty mapping
C19_Witness ==
  /\ drain # NoDrain
  /\ Len(drain[1]) = 3
  /\ Len(drain[2]) = 4
  /\ drain[1][1]["x"] = Some(0)
  /\ drain[1][2]["x"] = Some(1)
  /\ drain[1][3]["y"] = Some(1)
  /\ drain[2][1] = Some(drain[1][3])
  /\ drain[2][3] = Some(drain[1][1])
  /\ drain[2][4] = Some(HashMapNew)
  /\ maps = default

====
